---- MODULE Spec2Model ----
(***************************************************************************)
(* Model of the two FBA workflows of mmtpy_opt_workflows.py:               *)
(* optimize_model (maximize UFEt transporters, then pin each maximum and   *)
(* minimize the linked IEX reactions) and optimize_model_mbx (inject       *)
(* metabolomics constraints, then a minimize and a maximize sweep over the *)
(* fecal exchange reactions).                                              *)
(*                                                                         *)
(* Reaction and metabolite identifiers are sequences of tokens, so that    *)
(* the substring tests ("UFEt_" in id, startswith, endswith) and           *)
(* str.replace are computed on the identifier and not assumed.  The LP     *)
(* solve is an oracle: every solve draws its answer (a flux, or an         *)
(* exception) from Answers.  The workflow state is one record; the run     *)
(* under study and a twin run that differs only in the parallel flag step  *)
(* together on the same inputs and solver answers.                         *)
(***************************************************************************)
EXTENDS Integers, Sequences, FiniteSets, TLC

VARIABLES run, twin

vars == <<run, twin>>

(***************************************************************************)
(* Bounds of the model.                                                    *)
(***************************************************************************)
\* solver answers are the fluxes 0..MaxFlux, or an exception
MaxFlux == 1

(***************************************************************************)
(* Program constants.                                                      *)
(***************************************************************************)
\* bounds = (-1000.0, 0.0) of the diet override
DietLower == -1000
DietUpper == 0
\* the skip test of Part 2: maximized flux != 0.0
ZeroFlux == 0

(***************************************************************************)
(* Sequence helpers.                                                       *)
(***************************************************************************)
Range(q) == {q[k] : k \in 1..Len(q)}

Contains(id, tok) == \E k \in 1..Len(id) : id[k] = tok

RECURSIVE Remove(_, _)
\* str.replace(tok, ""): every occurrence of tok is removed
Remove(id, tok) ==
    IF id = <<>> THEN <<>>
    ELSE IF Head(id) = tok THEN Remove(Tail(id), tok)
         ELSE <<Head(id)>> \o Remove(Tail(id), tok)

RECURSIVE FilterIdx(_, _, _)
\* the indices k..n (in order) for which keep[k] holds
FilterIdx(keep, k, n) ==
    IF k > n THEN <<>>
    ELSE IF keep[k] THEN <<k>> \o FilterIdx(keep, k + 1, n)
         ELSE FilterIdx(keep, k + 1, n)

\* all orders in which the elements of S can be iterated
PermsOf(S) ==
    {q \in [1..Cardinality(S) -> S] : \A a, b \in 1..Cardinality(S) : a # b => q[a] # q[b]}

RECURSIVE DictSet(_, _, _)
\* d[key] = val on an insertion-ordered dict: an existing key keeps its place
DictSet(d, key, val) ==
    IF d = <<>> THEN <<[key |-> key, val |-> val]>>
    ELSE IF Head(d).key = key THEN <<[key |-> key, val |-> val]>> \o Tail(d)
         ELSE <<Head(d)>> \o DictSet(Tail(d), key, val)

Keys(d) == [k \in 1..Len(d) |-> d[k].key]

(***************************************************************************)
(* Models (cobra.Model inputs).  A reaction has an id, the metabolites it  *)
(* references and its bounds; model.metabolites is the catalog the         *)
(* get_by_id lookup of Part 2 searches.                                    *)
(***************************************************************************)
Rxn(id, mets, lb, ub) == [id |-> id, mets |-> mets, bounds |-> <<lb, ub>>]

Met(name, comp) == <<name, comp>>

\* a two-species community: the IEX reactions do not follow the UFEt order
Community ==
    [ reactions |-> <<
        Rxn(<<"sp1_", "IEX", "_", "pr", "[u]", "tr">>, {Met("pr", "[u]"), Met("sp1_pr", "[e]")}, -1000, 1000),
        Rxn(<<"UFEt_", "ac">>, {Met("ac", "[u]"), Met("ac", "[fe]")}, 0, 1000),
        Rxn(<<"UFEt_", "pr">>, {Met("pr", "[u]"), Met("pr", "[fe]")}, 0, 1000),
        Rxn(<<"sp1_", "IEX", "_", "ac", "[u]", "tr">>, {Met("ac", "[u]"), Met("sp1_ac", "[e]")}, -1000, 1000),
        Rxn(<<"sp2_", "IEX", "_", "ac", "[u]", "tr">>, {Met("ac", "[u]"), Met("sp2_ac", "[e]")}, -1000, 1000),
        Rxn(<<"EX_", "ac", "[fe]">>, {Met("ac", "[fe]")}, -1000, 1000),
        Rxn(<<"EX_", "pr", "[fe]">>, {Met("pr", "[fe]")}, -1000, 1000),
        Rxn(<<"Diet_", "EX_", "gchola", "[d]">>, {Met("gchola", "[d]")}, -1, 1000) >>,
      metabolites |-> {Met("ac", "[u]"), Met("pr", "[u]"), Met("ac", "[fe]"), Met("pr", "[fe]"),
                       Met("sp1_ac", "[e]"), Met("sp2_ac", "[e]"), Met("sp1_pr", "[e]"),
                       Met("gchola", "[d]")} ]

\* an IEX reaction that references two [u] metabolites
Shared ==
    [ reactions |-> <<
        Rxn(<<"UFEt_", "ac">>, {Met("ac", "[u]"), Met("ac", "[fe]")}, 0, 1000),
        Rxn(<<"UFEt_", "pr">>, {Met("pr", "[u]"), Met("pr", "[fe]")}, 0, 1000),
        Rxn(<<"sp1_", "IEX", "_", "acpr", "[u]", "tr">>, {Met("ac", "[u]"), Met("pr", "[u]"), Met("sp1_x", "[e]")}, -1000, 1000),
        Rxn(<<"EX_", "ac", "[fe]">>, {Met("ac", "[fe]")}, -1000, 1000),
        Rxn(<<"Diet_", "EX_", "tchola", "[d]">>, {Met("tchola", "[d]")}, 0, 1000),
        Rxn(<<"Diet_", "EX_", "ac", "[d]">>, {Met("ac", "[d]")}, -1, 1000) >>,
      metabolites |-> {Met("ac", "[u]"), Met("pr", "[u]"), Met("ac", "[fe]"), Met("pr", "[fe]"),
                       Met("sp1_x", "[e]"), Met("tchola", "[d]"), Met("ac", "[d]")} ]

\* a transporter (UFEt_bu) whose [u] metabolite is not in the catalog
Orphan ==
    [ reactions |-> <<
        Rxn(<<"EX_", "bu", "[fe]">>, {Met("bu", "[fe]")}, -1000, 1000),
        Rxn(<<"UFEt_", "bu">>, {Met("bu", "[fe]")}, 0, 1000),
        Rxn(<<"Diet_", "EX_", "tdchola", "[d]">>, {Met("tdchola", "[d]")}, -1, 1000) >>,
      metabolites |-> {Met("bu", "[fe]"), Met("tdchola", "[d]")} ]

Models == <<Community, Shared, Orphan>>

Rxns(s) == Models[s.m].reactions

RxnId(s, r) == Rxns(s)[r].id

NRxn(s) == Len(Rxns(s))

ModelBounds(m) == [r \in 1..Len(Models[m].reactions) |-> Models[m].reactions[r].bounds]

(***************************************************************************)
(* Reaction classification by substring of the id.                         *)
(***************************************************************************)
IsUFEt(id) == Contains(id, "UFEt_")

IsIEX(id) == Contains(id, "IEX")

IsDiet(id) == Contains(id, "Diet_")

IsBileAcid(id) ==
    \/ Contains(id, "dgchol")
    \/ Contains(id, "gchola")
    \/ Contains(id, "tchola")
    \/ Contains(id, "tdchola")

IsFEX(id) == id # <<>> /\ Head(id) = "EX_" /\ id[Len(id)] = "[fe]"

\* metabolite = UFEt_rxn_list[i].replace("UFEt_", "") + "[u]"
MetaboliteOf(id) == Remove(id, "UFEt_") \o <<"[u]">>

\* model.metabolites.get_by_id(metabolite).reactions, as reaction indices
ReactionsOf(s, met) == {r \in 1..NRxn(s) : met \in Rxns(s)[r].mets}

\* the reactions of the metabolite that pass the "IEX" in rxn.id test
IEXOf(s, met) == {r \in ReactionsOf(s, met) : IsIEX(RxnId(s, r))}

FEXList(s) == FilterIdx([r \in 1..NRxn(s) |-> IsFEX(RxnId(s, r))], 1, NRxn(s))

(***************************************************************************)
(* Solver answers and step inputs.                                         *)
(***************************************************************************)
Fluxes == 0..MaxFlux

Answers == [raises : {FALSE}, value : Fluxes] \cup [raises : {TRUE}, value : {0}]

NoAnswer == [raises |-> FALSE, value |-> 0]

CallArgs ==
    [wf : {"optimize_model"}, kind : {"model", "path", "other"},
     add_1ba : BOOLEAN, verbose : {TRUE}, return_outputs : BOOLEAN]
    \cup
    [wf : {"optimize_model_mbx"}, kind : {"model", "path", "other"},
     add_1ba : {FALSE}, verbose : BOOLEAN, return_outputs : BOOLEAN]

NoCall ==
    [wf |-> "optimize_model", kind |-> "model", add_1ba |-> FALSE,
     verbose |-> TRUE, return_outputs |-> FALSE]

Input(c, a, o) == [call |-> c, ans |-> a, order |-> o]

NoOp ==
    [op |-> "none", rxn |-> 0, sense |-> "", part |-> 0, raised |-> FALSE,
     lb |-> 0, ub |-> 0]

ObjectiveOp(r) == [NoOp EXCEPT !.op = "objective", !.rxn = r]

\* a solve, the sense it ran with, the loop it belongs to (1: Part 1 or the
\* minimize sweep, 2: Part 2 or the maximize sweep) and whether it raised
SolveOp(r, sense, part, raised) ==
    [NoOp EXCEPT !.op = "solve", !.rxn = r, !.sense = sense, !.part = part,
                 !.raised = raised]

BoundsOp(r, b) == [NoOp EXCEPT !.op = "bounds", !.rxn = r, !.lb = b[1], !.ub = b[2]]

NotReturned == [tag |-> "running", maps |-> <<>>]

(***************************************************************************)
(* The workflow state.  The Model object (bounds, objective, direction,    *)
(* constraints, solver) outlives a call; the other fields are the locals   *)
(* and the outcome of the call in progress.  part2_bounds, sweep_bounds,   *)
(* sweep_constraints and ops are history fields: the bounds when Part 2    *)
(* began, the model state at the first sweep solve, and the model          *)
(* operations of the latest step.  keeps_sense tells whether the installed *)
(* COBRApy leaves the objective direction as optimize(objective_sense=...)  *)
(* set it or puts the previous direction back after the solve.             *)
(***************************************************************************)
NewState(m, direction, keeps_sense, parallel) ==
    [ pc |-> "idle", m |-> m, keeps_sense |-> keeps_sense,
      wf |-> "optimize_model", add_1ba |-> FALSE, verbose |-> TRUE,
      return_outputs |-> FALSE, parallel |-> parallel,
      bounds |-> ModelBounds(m), objective |-> 0, direction |-> direction,
      constraints |-> {}, solver |-> "glpk",
      UFEt_rxn_list |-> <<>>, maximized_UFEt_flux_list |-> <<>>, counter |-> 0,
      i |-> 0, saved_bounds |-> <<0, 0>>, todo |-> <<>>,
      minimized_IEX_flux_dict |-> <<>>, model_rxn_bounds_dict |-> <<>>,
      sweep |-> <<>>, min_opt_solutions |-> <<>>, max_opt_solutions |-> <<>>,
      files |-> <<>>, returned |-> NotReturned, raised |-> "",
      console |-> 0,
      part2_bounds |-> <<>>, sweep_bounds |-> <<>>, sweep_constraints |-> {},
      ops |-> <<>> ]

\* an uncaught exception ends the call where it is raised
Abort(s, exc) == [s EXCEPT !.pc = "aborted", !.raised = exc]

\* print(...) guarded by "if not parallel"
Echo(s, n) == IF s.parallel THEN s.console ELSE s.console + n

\* the objective direction that model.optimize(objective_sense=sense) leaves
DirectionAfter(s, sense, raised) ==
    IF raised \/ s.keeps_sense THEN sense ELSE s.direction

\* the Reaction.bounds setter
SetBounds(s, r, b) == [s.bounds EXCEPT ![r] = b]

(***************************************************************************)
(* External collaborators (mmtpy_utils is not part of the sources).        *)
(***************************************************************************)
\* load_model: a fresh Model as stored in its file
load_model(s) ==
    [s EXCEPT !.bounds = ModelBounds(s.m), !.objective = 0, !.direction = "max",
              !.constraints = {}, !.solver = "glpk"]

\* set_default_bounds(model, rxn_type="FEX"): fecal exchange lower bounds to zero
set_default_bounds(s) ==
    [r \in 1..NRxn(s) |->
        IF IsFEX(RxnId(s, r)) THEN <<0, s.bounds[r][2]>> ELSE s.bounds[r]]

\* fetch_norm_sample_mbx_data, fetch_mbx_constr_list, solve_mbx_constraints:
\* the (slack-relaxed) constraint set for the sample
solve_mbx_constraints(s) == {"mbx"}

(***************************************************************************)
(* optimize_model                                                          *)
(***************************************************************************)
\* the call has ended (returned or raised): its frame is gone, the caller
\* keeps the Model object
Release(s) ==
    [NewState(s.m, s.direction, s.keeps_sense, s.parallel) EXCEPT
        !.bounds = s.bounds, !.objective = s.objective,
        !.constraints = s.constraints, !.solver = s.solver]

\* the logo or [STARTED] print and the resolution of model_input; the same
\* prologue opens optimize_model_mbx
Call(s, c) ==
    LET t == [s EXCEPT !.wf = c.wf, !.add_1ba = c.add_1ba, !.verbose = c.verbose,
                       !.return_outputs = c.return_outputs, !.console = 1]
    IN  CASE c.kind = "model" -> [t EXCEPT !.pc = "loaded"]
          [] c.kind = "path"  -> [load_model(t) EXCEPT !.pc = "loaded"]
          [] OTHER            -> Abort(t, "ValueError")

\* set_default_bounds(model, rxn_type="FEX", silent=silent)
Normalize(s) ==
    [s EXCEPT !.pc = "normalized", !.bounds = set_default_bounds(s), !.ops = <<>>]

\* the test that selects the diet reactions to override
DietOverride(s, r) ==
    /\ IsDiet(RxnId(s, r))
    /\ s.bounds[r][1] # 0
    /\ IsBileAcid(RxnId(s, r))

\* if add_1ba: ... bounds = (-1000.0, 0.0)
AddDiet(s) ==
    [s EXCEPT !.pc = "diet",
              !.bounds = [r \in 1..NRxn(s) |->
                            IF s.add_1ba /\ DietOverride(s, r)
                            THEN <<DietLower, DietUpper>> ELSE s.bounds[r]],
              !.ops = <<>>]

\* faulty variant: Part 2 sits under the "if not parallel" of the Part 1
\* epilogue, so a parallel run goes from Part 1 straight to the snapshot
EnterPart2_Indented(s) ==
    [s EXCEPT !.pc = "part2", !.i = IF s.parallel THEN Len(s.UFEt_rxn_list) + 1 ELSE 1,
              !.counter = 0, !.part2_bounds = s.bounds, !.console = Echo(s, 2)]

\* the end of Part 1: the locals of Part 2 are initialised
EnterPart2(s) ==
    [s EXCEPT !.pc = "part2", !.i = 1, !.counter = 0, !.part2_bounds = s.bounds,
              !.console = Echo(s, 2)]

\* UFEt_rxn_list: every reaction whose id contains "UFEt_", in model order
CollectUFEt(s) ==
    LET lst == FilterIdx([r \in 1..NRxn(s) |-> IsUFEt(RxnId(s, r))], 1, NRxn(s))
        t == [s EXCEPT !.pc = "part1", !.UFEt_rxn_list = lst, !.counter = 0,
                       !.console = Echo(s, 1), !.ops = <<>>]
    IN  IF lst = <<>> THEN EnterPart2(t) ELSE t

\* faulty variant: a failed solve is swallowed and recorded as 0.0
Part1Maximize_Catches(s, a) ==
    LET rxn == s.UFEt_rxn_list[s.counter + 1]
        u == [s EXCEPT !.counter = s.counter + 1, !.objective = rxn,
                       !.console = Echo(s, 2),
                       !.ops = <<ObjectiveOp(rxn), SolveOp(rxn, s.direction, 1, a.raises)>>,
                       !.maximized_UFEt_flux_list = Append(@, a.value)]
    IN  IF u.counter = Len(u.UFEt_rxn_list) THEN EnterPart2(u) ELSE u

\* one iteration of the Part 1 loop: model.objective = rxn; model.optimize()
Part1Maximize(s, a) ==
    LET rxn == s.UFEt_rxn_list[s.counter + 1]
        t == [s EXCEPT !.counter = s.counter + 1, !.objective = rxn,
                       !.console = Echo(s, 1),
                       !.ops = <<ObjectiveOp(rxn), SolveOp(rxn, s.direction, 1, a.raises)>>]
        u == [t EXCEPT !.maximized_UFEt_flux_list = Append(@, a.value),
                       !.console = Echo(t, 1)]
    IN  IF a.raises THEN Abort(t, "SolverError")
        ELSE IF u.counter = Len(u.UFEt_rxn_list) THEN EnterPart2(u) ELSE u

\* faulty variant: the zero test is dropped, every transporter is propagated
NonZero_Always(s) == TRUE

\* if maximized_UFEt_flux_list[i] != 0.0
NonZero(s) == s.maximized_UFEt_flux_list[s.i] # ZeroFlux

\* the order in which the frozenset metabolite.reactions is iterated
IterationOrder(s, met, order) ==
    IF Range(order) = IEXOf(s, met) /\ Len(order) = Cardinality(IEXOf(s, met))
    THEN order
    ELSE CHOOSE q \in PermsOf(IEXOf(s, met)) : TRUE

\* faulty variant: only the lower bound is raised to the maximum
Part2Pin_LowerOnly(s, order) ==
    LET T == s.UFEt_rxn_list[s.i]
        mx == s.maximized_UFEt_flux_list[s.i]
        met == MetaboliteOf(RxnId(s, T))
        t == [s EXCEPT !.counter = s.counter + 1, !.console = Echo(s, 1),
                       !.saved_bounds = s.bounds[T],
                       !.bounds = SetBounds(s, T, <<mx, s.bounds[T][2]>>),
                       !.ops = <<BoundsOp(T, <<mx, s.bounds[T][2]>>)>>]
    IN  IF met \notin Models[s.m].metabolites THEN Abort(t, "KeyError")
        ELSE [t EXCEPT !.pc = "part2_iex", !.todo = IterationOrder(s, met, order)]

\* the head of a Part 2 iteration: save the bounds, pin them to the maximum,
\* look the metabolite up
Part2Pin(s, order) ==
    LET T == s.UFEt_rxn_list[s.i]
        mx == s.maximized_UFEt_flux_list[s.i]
        met == MetaboliteOf(RxnId(s, T))
        t == [s EXCEPT !.counter = s.counter + 1, !.console = Echo(s, 1),
                       !.saved_bounds = s.bounds[T],
                       !.bounds = SetBounds(s, T, <<mx, mx>>),
                       !.ops = <<BoundsOp(T, <<mx, mx>>)>>]
    IN  IF met \notin Models[s.m].metabolites THEN Abort(t, "KeyError")
        ELSE [t EXCEPT !.pc = "part2_iex", !.todo = IterationOrder(s, met, order)]

\* the else branch: the transporter is skipped
Part2Skip(s) ==
    [s EXCEPT !.counter = s.counter + 1, !.i = s.i + 1, !.console = Echo(s, 2),
              !.ops = <<>>]

\* faulty variant: a failed minimize puts the saved bounds back before it
\* propagates (try/finally)
Part2Minimize_RollsBack(s, a) ==
    LET rxn == Head(s.todo)
        T == s.UFEt_rxn_list[s.i]
        t == [s EXCEPT !.objective = rxn,
                       !.direction = DirectionAfter(s, "min", a.raises),
                       !.ops = <<ObjectiveOp(rxn), SolveOp(rxn, "min", 2, a.raises)>>]
    IN  IF a.raises
        THEN Abort([t EXCEPT !.bounds = SetBounds(s, T, s.saved_bounds)], "SolverError")
        ELSE [t EXCEPT !.todo = Tail(s.todo),
                       !.minimized_IEX_flux_dict = DictSet(@, rxn, a.value),
                       !.console = Echo(t, 1)]

\* one IEX reaction of the metabolite: objective, minimize, record
Part2Minimize(s, a) ==
    LET rxn == Head(s.todo)
        t == [s EXCEPT !.objective = rxn,
                       !.direction = DirectionAfter(s, "min", a.raises),
                       !.ops = <<ObjectiveOp(rxn), SolveOp(rxn, "min", 2, a.raises)>>]
    IN  IF a.raises THEN Abort(t, "SolverError")
        ELSE [t EXCEPT !.todo = Tail(s.todo),
                       !.minimized_IEX_flux_dict = DictSet(@, rxn, a.value),
                       !.console = Echo(t, 1)]

\* faulty variant: the saved bounds are never put back
Part2Restore_Forgets(s) ==
    [s EXCEPT !.pc = "part2", !.i = s.i + 1, !.ops = <<>>]

\* model.reactions.get_by_id(UFEt_rxn_list[i]).bounds = saved_bounds
Part2Restore(s) ==
    LET T == s.UFEt_rxn_list[s.i]
    IN  [s EXCEPT !.pc = "part2", !.i = s.i + 1,
                  !.bounds = SetBounds(s, T, s.saved_bounds),
                  !.ops = <<BoundsOp(T, s.saved_bounds)>>]

\* faulty variant: the mappings are returned whatever return_outputs says
Return_Always(s, maps) == [tag |-> "tuple", maps |-> maps]

\* if return_outputs: return ...
Return(s, maps) ==
    IF s.return_outputs THEN [tag |-> "tuple", maps |-> maps]
    ELSE [tag |-> "None", maps |-> <<>>]

\* the lines written to one result file
WriteFile(name, d) == [name |-> name, lines |-> d]

\* bounds snapshot, result file, return
Finish(s) ==
    LET snapshot == [r \in 1..NRxn(s) |-> [key |-> r, val |-> s.bounds[r]]]
    IN  [s EXCEPT !.pc = "done",
                  !.model_rxn_bounds_dict = snapshot,
                  !.files = <<WriteFile("opt_flux", s.minimized_IEX_flux_dict)>>,
                  !.console = s.console + 1,
                  !.returned = Return(s, <<[k \in 1..Len(s.UFEt_rxn_list) |->
                                               [key |-> s.UFEt_rxn_list[k],
                                                val |-> s.maximized_UFEt_flux_list[k]]],
                                           s.minimized_IEX_flux_dict, snapshot>>),
                  !.ops = <<>>]

(***************************************************************************)
(* optimize_model_mbx                                                      *)
(***************************************************************************)
\* solver choice, sample data, default bounds, constraint injection; then the
\* minimize sweep begins over the EX_...[fe] reactions
MbxPrepare(s) ==
    LET b == set_default_bounds(s)
        cons == s.constraints \cup solve_mbx_constraints(s)
        t == [s EXCEPT !.solver = "gurobi", !.bounds = b, !.constraints = cons,
                       !.sweep = FEXList(s), !.console = Echo(s, 1),
                       !.sweep_bounds = b, !.sweep_constraints = cons,
                       !.ops = <<>>]
    IN  IF FEXList(s) = <<>> THEN [t EXCEPT !.pc = "mbx_write", !.console = Echo(t, 1)]
        ELSE [t EXCEPT !.pc = "mbx_min"]

\* if solution.objective_value != 0.0 or verbose: if not parallel: print(...)
MbxEcho(s, value) == IF value # 0 \/ s.verbose THEN Echo(s, 1) ELSE s.console

\* faulty variant: the minimize sweep pins each reaction to its minimum
MbxMinimize_Pins(s, a) ==
    LET rxn == Head(s.sweep)
        t == [s EXCEPT !.objective = rxn,
                       !.direction = DirectionAfter(s, "min", a.raises),
                       !.ops = <<ObjectiveOp(rxn), SolveOp(rxn, "min", 1, a.raises)>>]
        u == [t EXCEPT !.sweep = Tail(s.sweep),
                       !.bounds = SetBounds(s, rxn, <<a.value, a.value>>),
                       !.min_opt_solutions = DictSet(@, rxn, a.value),
                       !.console = MbxEcho(t, a.value)]
    IN  IF a.raises THEN Abort(t, "SolverError")
        ELSE IF u.sweep = <<>>
             THEN [u EXCEPT !.pc = "mbx_max", !.sweep = FEXList(s), !.console = Echo(u, 1)]
             ELSE u

\* one iteration of the minimize sweep
MbxMinimize(s, a) ==
    LET rxn == Head(s.sweep)
        t == [s EXCEPT !.objective = rxn,
                       !.direction = DirectionAfter(s, "min", a.raises),
                       !.ops = <<ObjectiveOp(rxn), SolveOp(rxn, "min", 1, a.raises)>>]
        u == [t EXCEPT !.sweep = Tail(s.sweep),
                       !.min_opt_solutions = DictSet(@, rxn, a.value),
                       !.console = MbxEcho(t, a.value)]
    IN  IF a.raises THEN Abort(t, "SolverError")
        ELSE IF u.sweep = <<>>
             THEN [u EXCEPT !.pc = "mbx_max", !.sweep = FEXList(s), !.console = Echo(u, 1)]
             ELSE u

\* one iteration of the maximize sweep
MbxMaximize(s, a) ==
    LET rxn == Head(s.sweep)
        t == [s EXCEPT !.objective = rxn,
                       !.direction = DirectionAfter(s, "max", a.raises),
                       !.ops = <<ObjectiveOp(rxn), SolveOp(rxn, "max", 2, a.raises)>>]
        u == [t EXCEPT !.sweep = Tail(s.sweep),
                       !.max_opt_solutions = DictSet(@, rxn, a.value),
                       !.console = MbxEcho(t, a.value)]
    IN  IF a.raises THEN Abort(t, "SolverError")
        ELSE IF u.sweep = <<>> THEN [u EXCEPT !.pc = "mbx_write"] ELSE u

\* the two result files, the [DONE] print of a parallel run, the return
MbxFinish(s) ==
    [s EXCEPT !.pc = "done",
              !.files = <<WriteFile("min_mbx_opt_flux", s.min_opt_solutions),
                          WriteFile("max_mbx_opt_flux", s.max_opt_solutions)>>,
              !.console = IF s.parallel THEN s.console + 1 ELSE s.console,
              !.returned = Return(s, <<s.min_opt_solutions, s.max_opt_solutions>>),
              !.ops = <<>>]

(***************************************************************************)
(* Control: which step a state takes next.                                 *)
(***************************************************************************)
Ended(s) == s.pc \in {"done", "aborted"}

InPart2Loop(s) == s.pc = "part2" /\ s.i <= Len(s.UFEt_rxn_list)

Step(s, inp) ==
    CASE s.pc = "idle"                              -> Call(s, inp.call)
      [] Ended(s)                                   -> Release(s)
      [] s.pc = "loaded" /\ s.wf = "optimize_model"  -> Normalize(s)
      [] s.pc = "loaded" /\ s.wf # "optimize_model"  -> MbxPrepare(s)
      [] s.pc = "normalized"                        -> AddDiet(s)
      [] s.pc = "diet"                              -> CollectUFEt(s)
      [] s.pc = "part1"                             -> Part1Maximize(s, inp.ans)
      [] InPart2Loop(s) /\ NonZero(s)               -> Part2Pin(s, inp.order)
      [] InPart2Loop(s) /\ ~NonZero(s)              -> Part2Skip(s)
      [] s.pc = "part2" /\ ~InPart2Loop(s)          -> Finish(s)
      [] s.pc = "part2_iex" /\ s.todo # <<>>        -> Part2Minimize(s, inp.ans)
      [] s.pc = "part2_iex" /\ s.todo = <<>>        -> Part2Restore(s)
      [] s.pc = "mbx_min"                           -> MbxMinimize(s, inp.ans)
      [] s.pc = "mbx_max"                           -> MbxMaximize(s, inp.ans)
      [] s.pc = "mbx_write"                         -> MbxFinish(s)

(***************************************************************************)
(* Specification.  run is called with parallel=False and twin with         *)
(* parallel=True; both receive the same arguments, the same Model and the  *)
(* same solver answers.                                                    *)
(***************************************************************************)
Init ==
    \E m \in 1..Len(Models), d \in {"max", "min"}, k \in BOOLEAN :
        /\ run = NewState(m, d, k, FALSE)
        /\ twin = NewState(m, d, k, TRUE)

Both(inp) ==
    /\ run' = Step(run, inp)
    /\ twin' = Step(twin, inp)

CallWorkflow ==
    /\ run.pc = "idle"
    /\ \E c \in CallArgs : Both(Input(c, NoAnswer, <<>>))

ReturnToCaller ==
    /\ Ended(run)
    /\ Both(Input(NoCall, NoAnswer, <<>>))

SetDefaultBounds ==
    /\ run.pc = "loaded" /\ run.wf = "optimize_model"
    /\ Both(Input(NoCall, NoAnswer, <<>>))

DietBounds ==
    /\ run.pc = "normalized"
    /\ Both(Input(NoCall, NoAnswer, <<>>))

FetchUFEt ==
    /\ run.pc = "diet"
    /\ Both(Input(NoCall, NoAnswer, <<>>))

MaximizeUFEt ==
    /\ run.pc = "part1"
    /\ \E a \in Answers : Both(Input(NoCall, a, <<>>))

PinUFEt ==
    /\ InPart2Loop(run) /\ NonZero(run)
    /\ \E order \in PermsOf(IEXOf(run, MetaboliteOf(RxnId(run, run.UFEt_rxn_list[run.i])))) :
          Both(Input(NoCall, NoAnswer, order))

SkipUFEt ==
    /\ InPart2Loop(run) /\ ~NonZero(run)
    /\ Both(Input(NoCall, NoAnswer, <<>>))

MinimizeIEX ==
    /\ run.pc = "part2_iex" /\ run.todo # <<>>
    /\ \E a \in Answers : Both(Input(NoCall, a, <<>>))

RestoreUFEt ==
    /\ run.pc = "part2_iex" /\ run.todo = <<>>
    /\ Both(Input(NoCall, NoAnswer, <<>>))

WriteAndReturn ==
    /\ run.pc = "part2" /\ ~InPart2Loop(run)
    /\ Both(Input(NoCall, NoAnswer, <<>>))

PrepareMbx ==
    /\ run.pc = "loaded" /\ run.wf = "optimize_model_mbx"
    /\ Both(Input(NoCall, NoAnswer, <<>>))

MinimizeFEX ==
    /\ run.pc = "mbx_min"
    /\ \E a \in Answers : Both(Input(NoCall, a, <<>>))

MaximizeFEX ==
    /\ run.pc = "mbx_max"
    /\ \E a \in Answers : Both(Input(NoCall, a, <<>>))

WriteAndReturnMbx ==
    /\ run.pc = "mbx_write"
    /\ Both(Input(NoCall, NoAnswer, <<>>))

Next ==
    \/ CallWorkflow
    \/ SetDefaultBounds
    \/ DietBounds
    \/ FetchUFEt
    \/ MaximizeUFEt
    \/ PinUFEt
    \/ SkipUFEt
    \/ MinimizeIEX
    \/ RestoreUFEt
    \/ WriteAndReturn
    \/ PrepareMbx
    \/ MinimizeFEX
    \/ MaximizeFEX
    \/ WriteAndReturnMbx
    \/ ReturnToCaller

Spec == Init /\ [][Next]_vars

(***************************************************************************)
(* Properties.                                                             *)
(***************************************************************************)
Runs == {run, twin}

OptRun(s) == s.wf = "optimize_model"

MbxRun(s) == s.wf = "optimize_model_mbx"

Transporter(s, k) == s.UFEt_rxn_list[k]

MaxOf(s, k) == s.maximized_UFEt_flux_list[k]

Solved(s) == Len(s.maximized_UFEt_flux_list)

KeySet(d) == Range(Keys(d))

\* the keys of d follow the order of model.reactions
InModelOrder(d) == \A a, b \in 1..Len(d) : a < b => d[a].key < d[b].key

RaisingSolve(s) == \E k \in 1..Len(s.ops) : s.ops[k].op = "solve" /\ s.ops[k].raised

\* C1: when optimize_model has run to completion, every transporter whose
\* maximized flux was non-zero has the bounds it had when Part 2 began.
C1_BoundsRestored ==
    \A s \in Runs :
        (s.pc = "done" /\ OptRun(s)) =>
            \A k \in 1..Len(s.UFEt_rxn_list) :
                MaxOf(s, k) # 0 => s.bounds[Transporter(s, k)] = s.part2_bounds[Transporter(s, k)]

\* a completed run in which a transporter was pinned to bounds other than its own
C1_Witness ==
    /\ run.pc = "done" /\ OptRun(run)
    /\ \E k \in 1..Len(run.UFEt_rxn_list) :
          /\ MaxOf(run, k) # 0
          /\ run.part2_bounds[Transporter(run, k)] # <<MaxOf(run, k), MaxOf(run, k)>>
          /\ IEXOf(run, MetaboliteOf(RxnId(run, Transporter(run, k)))) \subseteq
                KeySet(run.minimized_IEX_flux_dict)

\* C2 (as stated): a transporter that maximizes to 0.0 causes no minimize solve
\* for its metabolite, and at the end of the run the minimized map has no key
\* for any IEX reaction that references that metabolite.
C2_ZeroMeansNoEntry ==
    \A s \in Runs : OptRun(s) =>
        \A k \in 1..Solved(s) : MaxOf(s, k) = 0 =>
            /\ (s.pc = "part2_iex" /\ s.todo # <<>>) =>
                  MetaboliteOf(RxnId(s, Transporter(s, s.i))) #
                      MetaboliteOf(RxnId(s, Transporter(s, k)))
            /\ s.pc = "done" =>
                  IEXOf(s, MetaboliteOf(RxnId(s, Transporter(s, k)))) \cap
                      KeySet(s.minimized_IEX_flux_dict) = {}

\* C2 (amended): no minimize solve is issued in the iteration of a transporter
\* that maximized to 0.0, and every key of the minimized map is an IEX reaction
\* of the metabolite derived from some transporter with a non-zero maximum.
C2_ZeroIterationIdle ==
    \A s \in Runs : OptRun(s) =>
        /\ s.pc = "part2_iex" => MaxOf(s, s.i) # 0
        /\ s.minimized_IEX_flux_dict # <<>> =>
              KeySet(s.minimized_IEX_flux_dict) \subseteq
                  UNION {IEXOf(s, MetaboliteOf(RxnId(s, Transporter(s, k)))) :
                            k \in {j \in 1..Solved(s) : MaxOf(s, j) # 0}}

\* a completed run with a skipped transporter whose metabolite has IEX
\* reactions, and a propagated one that left entries in the map
C2_Witness ==
    /\ run.pc = "done" /\ OptRun(run)
    /\ run.minimized_IEX_flux_dict # <<>>
    /\ \E k \in 1..Solved(run) :
          /\ MaxOf(run, k) = 0
          /\ IEXOf(run, MetaboliteOf(RxnId(run, Transporter(run, k)))) # {}

\* C3 (as stated): every result mapping of the two workflows has its keys in
\* the order of the model's reaction collection, and the files list them so.
C3_ModelOrder ==
    \A s \in Runs : s.pc = "done" =>
        /\ InModelOrder(s.minimized_IEX_flux_dict)
        /\ InModelOrder(s.model_rxn_bounds_dict)
        /\ InModelOrder(s.min_opt_solutions)
        /\ InModelOrder(s.max_opt_solutions)
        /\ \A a, b \in 1..Len(s.UFEt_rxn_list) : a < b => Transporter(s, a) < Transporter(s, b)
        /\ \A f \in 1..Len(s.files) : InModelOrder(s.files[f].lines)

\* C4 (as stated): every Part 1 solve of optimize_model runs with maximize
\* sense, whatever direction the model carries on entry.
C4_Part1Maximizes ==
    \A s \in Runs : OptRun(s) =>
        \A k \in 1..Len(s.ops) :
            (s.ops[k].op = "solve" /\ s.ops[k].part = 1) => s.ops[k].sense = "max"

\* C5 (as stated): every completed call returns its result mappings, three
\* for optimize_model and two for optimize_model_mbx, whatever the flags.
C5_AlwaysReturnsMaps ==
    \A s \in Runs : s.pc = "done" =>
        /\ s.returned.tag = "tuple"
        /\ Len(s.returned.maps) = IF OptRun(s) THEN 3 ELSE 2

\* C5 (amended): a completed call with return_outputs set returns its result
\* mappings (maximized, minimized, bounds snapshot; or min, max); a completed
\* call without return_outputs returns None.
C5_ReturnsMapsOnRequest ==
    \A s \in Runs : s.pc = "done" =>
        /\ s.return_outputs =>
              /\ s.returned.tag = "tuple"
              /\ OptRun(s) =>
                    /\ Len(s.returned.maps) = 3
                    /\ Keys(s.returned.maps[1]) = s.UFEt_rxn_list
                    /\ s.returned.maps[2] = s.minimized_IEX_flux_dict
                    /\ s.returned.maps[3] = s.model_rxn_bounds_dict
              /\ MbxRun(s) =>
                    s.returned.maps = <<s.min_opt_solutions, s.max_opt_solutions>>
        /\ ~s.return_outputs => s.returned = [tag |-> "None", maps |-> <<>>]

\* a completed optimize_model call that was asked for its outputs and
\* returns non-empty mappings
C5_Witness ==
    /\ run.pc = "done" /\ OptRun(run) /\ run.return_outputs
    /\ run.returned.tag = "tuple"
    /\ run.returned.maps[2] # <<>>

\* C6: from the first to the last sweep solve of optimize_model_mbx the
\* bounds and the injected constraints stay as they were when the sweep
\* began; the sweep steps only assign the objective and solve.
C6_SweepFrame ==
    \A s \in Runs :
        (MbxRun(s) /\ (s.pc \in {"mbx_min", "mbx_max", "mbx_write", "done"}
                        \/ (s.pc = "aborted" /\ s.raised = "SolverError"))) =>
            /\ s.bounds = s.sweep_bounds
            /\ s.constraints = s.sweep_constraints
            /\ "mbx" \in s.constraints
            /\ \A k \in 1..Len(s.ops) : s.ops[k].op \in {"objective", "solve"}

\* both sweeps have solved every fecal exchange reaction, more than one
C6_Witness ==
    /\ run.pc = "mbx_write"
    /\ Len(run.min_opt_solutions) > 1
    /\ Keys(run.max_opt_solutions) = Keys(run.min_opt_solutions)
    /\ \E k \in 1..Len(run.min_opt_solutions) : run.min_opt_solutions[k].val # 0

\* C7: the run with parallel=True and the run with parallel=False, given the
\* same model, arguments and solver answers, perform the same model
\* operations at every step, hold the same model state and produce the same
\* mappings, files and return value; only the console output differs.
C7_ParallelSameSemantics ==
    /\ ~run.parallel /\ twin.parallel
    /\ twin = [run EXCEPT !.parallel = TRUE, !.console = twin.console]

\* a completed Part 2 with recorded minima, where the two consoles differ
C7_Witness ==
    /\ run.pc = "done" /\ OptRun(run)
    /\ run.minimized_IEX_flux_dict # <<>>
    /\ twin.console < run.console

\* C8: a solve that raises aborts the call: the state it leaves has no result
\* file and no return value, the failed solve recorded nothing, and the only
\* step after it hands the Model back (no further solve).
C8_RaiseAborts ==
    /\ [](\A s \in Runs : RaisingSolve(s) =>
            /\ s.pc = "aborted" /\ s.raised = "SolverError"
            /\ s.files = <<>>
            /\ s.returned = NotReturned)
    /\ [][\A w \in {1, 2} :
            LET s == IF w = 1 THEN run ELSE twin
                n == IF w = 1 THEN run' ELSE twin'
            IN  s.pc = "aborted" => (n.pc = "idle" /\ n.ops = <<>> /\ n.files = <<>>)]_vars

\* the maximize sweep of optimize_model_mbx raised after a completed minimize sweep
C8_Witness ==
    /\ run.pc = "aborted" /\ MbxRun(run) /\ RaisingSolve(run)
    /\ Keys(run.min_opt_solutions) = FEXList(run)
    /\ run.max_opt_solutions # <<>>

\* C9: whenever an IEX minimize solve is issued for transporter T (and when
\* it has just run), T is pinned to (max_T, max_T) and every other
\* transporter has the bounds it had when Part 2 began.
C9_PinIsolation ==
    \A s \in Runs :
        (OptRun(s) /\ (s.pc = "part2_iex"
                        \/ \E k \in 1..Len(s.ops) : s.ops[k].op = "solve" /\ s.ops[k].part = 2)) =>
            /\ s.bounds[Transporter(s, s.i)] = <<MaxOf(s, s.i), MaxOf(s, s.i)>>
            /\ \A k \in 1..Len(s.UFEt_rxn_list) :
                  k # s.i => s.bounds[Transporter(s, k)] = s.part2_bounds[Transporter(s, k)]

\* a minimize solve is about to run for a later transporter after an
\* earlier one was pinned to bounds other than its own and restored
C9_Witness ==
    /\ run.pc = "part2_iex" /\ run.todo # <<>> /\ run.i > 1
    /\ \E k \in 1..(run.i - 1) :
          /\ MaxOf(run, k) # 0
          /\ run.part2_bounds[Transporter(run, k)] # <<MaxOf(run, k), MaxOf(run, k)>>

\* C10: when optimize_model aborts inside Part 2 on a metabolite lookup miss
\* or a failed minimize solve, the transporter stays pinned to (max, max),
\* every other reaction keeps the normalized and diet-overridden bounds, and
\* the failed operation is not tried again.
C10_NoRollback ==
    \A s \in Runs :
        (OptRun(s) /\ s.pc = "aborted" /\ s.i >= 1
                   /\ s.raised \in {"KeyError", "SolverError"}) =>
            /\ MaxOf(s, s.i) # 0
            /\ s.bounds[Transporter(s, s.i)] = <<MaxOf(s, s.i), MaxOf(s, s.i)>>
            /\ \A r \in 1..NRxn(s) : r # Transporter(s, s.i) => s.bounds[r] = s.part2_bounds[r]
            /\ \A r \in 1..NRxn(s) : IsFEX(RxnId(s, r)) => s.bounds[r][1] = 0
            /\ s.add_1ba =>
                  \A r \in 1..NRxn(s) :
                      (IsDiet(RxnId(s, r)) /\ IsBileAcid(RxnId(s, r))) =>
                          (s.bounds[r] = <<DietLower, DietUpper>> \/ s.bounds[r][1] = 0)
            /\ Cardinality({k \in 1..Len(s.ops) : s.ops[k].op = "solve"}) =
                  IF s.raised = "SolverError" THEN 1 ELSE 0

\* an abort on a failed minimize, with the diet override applied and the
\* transporter left on bounds other than its own
C10_Witness ==
    /\ run.pc = "aborted" /\ OptRun(run) /\ run.i >= 1 /\ run.raised = "SolverError"
    /\ run.add_1ba
    /\ \E r \in 1..NRxn(run) : run.bounds[r] = <<DietLower, DietUpper>>
    /\ run.bounds[Transporter(run, run.i)] # run.part2_bounds[Transporter(run, run.i)]

\* the abort on a metabolite lookup miss
C10_WitnessLookup ==
    /\ run.pc = "aborted" /\ OptRun(run) /\ run.raised = "KeyError"
    /\ run.bounds[Transporter(run, run.i)] # run.part2_bounds[Transporter(run, run.i)]

====
